---- MODULE Spec2Model ----
(***************************************************************************)
(* Model of the electrum watcher worker thread of mycitadel-desktop        *)
(* (src/worker/electrum_watcher.rs): the thread spawned by                 *)
(* ElectrumWatcher::with runs electrum_watcher(), which connects to the    *)
(* indexing service, scans the two derivation branches window by window,   *)
(* fetches the referenced transactions and then polls for new blocks.      *)
(* The consumer and the indexing service are the environment.              *)
(***************************************************************************)
EXTENDS Integers, Sequences, FiniteSets, TLC

(* ------------------------------ bounds -------------------------------- *)
\* number of windows of one run in which the service may report activity
MaxWindows == 2
\* number of block-header polls of the watching loop that are explored
MaxPolls == 2

(* ------------------------- program constants --------------------------- *)
WindowLast == 19
WindowStep == 20
ChunkSize == 20
ProgressDiv == 20
U16Mod == 65536

(* ------------------------------ helpers -------------------------------- *)
Min(a, b) == IF a <= b THEN a ELSE b

RECURSIVE Flatten(_)
\* Iterator::flat_map(..).collect(): concatenation of a sequence of sequences
Flatten(ss) == IF ss = <<>> THEN <<>> ELSE Head(ss) \o Flatten(Tail(ss))

RECURSIVE MaxOf(_, _)
\* Iterator::max().unwrap_or_default() over the indexes of a batch
MaxOf(s, dflt) ==
    IF s = <<>> THEN dflt
    ELSE LET m == MaxOf(Tail(s), dflt)
         IN  IF Tail(s) = <<>> \/ Head(s) >= m THEN Head(s) ELSE m

RECURSIVE SortedSeq(_)
\* BTreeSet::into_iter().collect::<Vec<_>>(): the elements in ascending order
SortedSeq(S) ==
    IF S = {} THEN <<>>
    ELSE LET m == CHOOSE x \in S : \A y \in S : x <= y
         IN  <<m>> \o SortedSeq(S \ {m})

\* as chunks_exact(size) would count: a trailing partial chunk is left out
NumChunks_Exact(len, size) == len \div size

\* number of chunks slice::chunks(size) yields for a slice of length len
NumChunks(len, size) == (len + size - 1) \div size

\* the no-th (0-based) chunk of slice::chunks(size)
ChunkAt(v, no, size) ==
    SubSeq(v, no * size + 1, Min(Len(v), (no + 1) * size))

(* --------------------------- wallet descriptor ------------------------- *)
\* the output script the descriptor associates with (branch, index)
Script(chg, index) == [change |-> chg, index |-> index]

\* AddressCompat::from_script(script, network)
AddressFromScript(script) == [addr |-> script]

\* WalletSettings::script_pubkeys(change, lo..=hi): ordered map index -> script
ScriptPubkeys(chg, lo, hi) ==
    [i \in 1..(hi - lo + 1) |->
        [index |-> lo + i - 1, script |-> Script(chg, lo + i - 1)]]

(* ------------------------ indexing-service replies --------------------- *)
\* replies of batch_script_get_history: one list of results per script
HistNone == [i \in 1..WindowStep |-> <<>>]

HistSparse ==
    [i \in 1..WindowStep |->
        IF i = 1 THEN <<[tx_hash |-> 21, height |-> 100]>>
        ELSE IF i = 6 THEN <<[tx_hash |-> 22, height |-> 0]>>
        ELSE IF i = 20 THEN <<[tx_hash |-> 23, height |-> 101],
                              [tx_hash |-> 21, height |-> 100]>>
        ELSE <<>>]

HistDense == [i \in 1..WindowStep |-> <<[tx_hash |-> i, height |-> 100]>>]

HistoryReplies == {HistNone, HistSparse, HistDense}

\* replies of batch_script_list_unspent: one list of results per script
UtxoNone == [i \in 1..WindowStep |-> <<>>]

UtxoSparse ==
    [i \in 1..WindowStep |->
        IF i = 6 THEN <<[tx_hash |-> 22, height |-> 0, tx_pos |-> 1, value |-> 5000]>>
        ELSE IF i = 20 THEN <<[tx_hash |-> 24, height |-> 102, tx_pos |-> 0, value |-> 700]>>
        ELSE <<>>]

UtxoReplies == {UtxoNone, UtxoSparse}

\* reply of batch_transaction_get: one transaction body per requested id
TxReply(chunk) == [i \in 1..Len(chunk) |-> [body |-> chunk[i]]]

(* ------------------------------ messages ------------------------------- *)
Connecting == [type |-> "Connecting"]
Connected == [type |-> "Connected"]
Complete == [type |-> "Complete"]
LastBlock(h) == [type |-> "LastBlock", header |-> h]
LastBlockUpdate(h) == [type |-> "LastBlockUpdate", header |-> h]
FeeEstimate(a, b, c) == [type |-> "FeeEstimate", fee |-> <<a, b, c>>]
HistoryBatch(batch, off) == [type |-> "HistoryBatch", batch |-> batch, offset |-> off]
UtxoBatch(batch, off) == [type |-> "UtxoBatch", batch |-> batch, offset |-> off]
TxBatch(txmap, progress) == [type |-> "TxBatch", txmap |-> txmap, progress |-> progress]
Error(cause) == [type |-> "Error", cause |-> cause]

\* `as u32` of a usize: truncation to 32 bits, which keeps every value below
\* 2^32; heights and output positions of the replies are far below it
AsU32(x) == x

\* struct HistoryTxid built in the closure of the history flat_map
HistoryTxid(res, entry, chg) ==
    [txid |-> res.tx_hash, height |-> res.height,
     address |-> AddressFromScript(entry.script),
     index |-> entry.index, change |-> chg]

\* struct UtxoTxid built in the closure of the unspent flat_map
UtxoTxid(res, entry, chg) ==
    [txid |-> res.tx_hash, height |-> AsU32(res.height),
     pos |-> AsU32(res.tx_pos), value |-> res.value,
     address |-> AddressFromScript(entry.script),
     index |-> entry.index, change |-> chg]

\* reply.into_iter().zip(&spk).flat_map(..).collect() of the history query
HistoryRecords(reply, scripts, chg) ==
    Flatten([i \in 1..Min(Len(reply), Len(scripts)) |->
        [j \in 1..Len(reply[i]) |-> HistoryTxid(reply[i][j], scripts[i], chg)]])

\* unspent results that are all attributed to the first script of the window
UtxoRecords_FirstScript(reply, scripts, chg) ==
    Flatten([i \in 1..Min(Len(reply), Len(scripts)) |->
        [j \in 1..Len(reply[i]) |-> UtxoTxid(reply[i][j], scripts[1], chg)]])

\* reply.into_iter().zip(spk).flat_map(..).collect() of the unspent query
UtxoRecords(reply, scripts, chg) ==
    Flatten([i \in 1..Min(Len(reply), Len(scripts)) |->
        [j \in 1..Len(reply[i]) |-> UtxoTxid(reply[i][j], scripts[i], chg)]])

\* the index of the first record of the batch instead of the greatest
MaxIndex_First(batch) == batch[1].index

\* history_batch.iter().map(|item| item.index).max().unwrap_or_default()
MaxIndex(batch) == MaxOf([i \in 1..Len(batch) |-> batch[i].index], 0)

\* the transaction ids of a batch of records
TxidsOf(batch) == {batch[i].txid : i \in 1..Len(batch)}

\* chunk.iter().copied().zip(reply).collect::<BTreeMap<_, _>>()
TxMap(chunk, reply) ==
    LET n == Min(Len(chunk), Len(reply))
    IN  [t \in {chunk[i] : i \in 1..n} |->
            reply[CHOOSE i \in 1..n : chunk[i] = t /\ \A k \in (i + 1)..n : chunk[k] # t]]

\* a progress counting the chunks still to fetch instead of those fetched
Progress_Remaining(no, len) ==
    [num |-> NumChunks(len, ChunkSize) - no, den |-> len * ProgressDiv]

\* (no + 1) as f32 / txids.len() as f32 / 20.0, kept as an exact fraction
Progress(no, len) == [num |-> no + 1, den |-> len * ProgressDiv]

\* an advance by the last index of the window instead of the window size
NextOffset_Short(off) == (off + WindowLast) % U16Mod

\* offset += 20 on a u16
NextOffset(off) == (off + WindowStep) % U16Mod

\* offset + 19 on a u16
WindowEnd(off) == (off + WindowLast) % U16Mod

\* the receiving branch scanned before the change branch
Branches_ReceiveFirst == <<FALSE, TRUE>>

\* for change in [true, false]
Branches == <<TRUE, FALSE>>

\* a gap that is only accepted after the first window
GapReached_AfterFirst(batch, off) == batch = <<>> /\ off > 0

\* a gap that is only accepted from the third window on
GapReached_ThirdWindow(batch, off) == batch = <<>> /\ off >= 2 * WindowStep

\* history_batch.is_empty(): the window shows no activity and the scan breaks
GapReached(batch, off) == batch = <<>>

\* replies of block_headers_subscribe and block_headers_pop
Headers == {800000}

\* reply of batch_estimate_fee([1, 2, 3])
FeeReply == <<3, 2, 1>>

(* ------------------------------- state --------------------------------- *)
VARIABLES
    pc,             \* position of the worker thread
    receiverAlive,  \* the consumer still holds the receiving end
    events,         \* messages delivered to the channel, in order
    tags,           \* for each batch message, the loop iteration (1, 2) that sent it; else 0
    calls,          \* requests made to the service and the descriptor, in order
    bi,             \* iteration of `for change in [true, false]`
    offset,         \* let mut offset = 0u16
    upto,           \* let mut upto
    upto_index,     \* map change -> highest used index
    spk,            \* scripts of the current window
    txids,          \* let mut txids = bset![]
    txvec,          \* txids collected into a Vec
    no,             \* number of the next chunk of txvec
    polls,          \* polls made by the watching loop
    signer,         \* an XprivSigner: the master key it holds
    sigLog,         \* the calls made on the signer, with their results
    loopPc,         \* position in the window loop of one branch
    loopOffset,     \* the u16 offset of that loop
    loopEnd         \* the u16 value of offset + 19 of its current window

vars == <<pc, receiverAlive, events, tags, calls, bi, offset, upto, upto_index,
          spk, txids, txvec, no, polls, signer, sigLog, loopPc, loopOffset, loopEnd>>

\* the state of the worker thread and its channel
workerVars == <<pc, receiverAlive, events, tags, calls, bi, offset, upto, upto_index,
                spk, txids, txvec, no, polls>>

\* the state the worker thread does not touch
otherVars == <<signer, sigLog, loopPc, loopOffset, loopEnd>>

scanVars == <<bi, offset, upto, upto_index, spk, txids, txvec, no>>

\* the branch flag of the current loop iteration
change == Branches[bi]

\* the worker thread right after std::thread::Builder::spawn
WorkerInit ==
    /\ pc = "start"
    /\ receiverAlive = TRUE
    /\ events = <<>>
    /\ tags = <<>>
    /\ calls = <<>>
    /\ bi = 1
    /\ offset = 0
    /\ upto = 0
    /\ upto_index = [b \in BOOLEAN |-> 0]
    /\ spk = <<>>
    /\ txids = {}
    /\ txvec = <<>>
    /\ no = 0
    /\ polls = 0

\* no call has been made on the signer, and no window loop is under study
OthersIdle ==
    /\ signer = [xpriv |-> "none"]
    /\ sigLog = <<>>
    /\ loopPc = "idle"
    /\ loopOffset = 0
    /\ loopEnd = 0

Init == WorkerInit /\ OthersIdle

\* a send whose failure is ignored: the message is dropped and the worker goes on
Send_Drop(msg, next) ==
    /\ pc' = next
    /\ IF receiverAlive
       THEN /\ events' = Append(events, msg)
            /\ tags' = Append(tags, IF msg.type \in {"HistoryBatch", "UtxoBatch"} THEN bi ELSE 0)
       ELSE UNCHANGED <<events, tags>>

\* sender.send(msg).expect(..): deliver msg and go on at next, or panic
Send(msg, next) ==
    IF receiverAlive
    THEN /\ events' = Append(events, msg)
         /\ tags' = Append(tags, IF msg.type \in {"HistoryBatch", "UtxoBatch"} THEN bi ELSE 0)
         /\ pc' = next
    ELSE /\ pc' = "panicked"
         /\ UNCHANGED <<events, tags>>

\* a thread closure that drops the returned error instead of sending it
Raise_Silent(cause) == pc' = "terminated" /\ UNCHANGED <<events, tags>>

\* `?` returns the error to the thread closure, which sends it and ends
Raise(cause) == Send(Error(cause), "terminated")

\* a request to the service or the descriptor is recorded
Call(c) == calls' = Append(calls, c)

(* ------------------------------ actions -------------------------------- *)
\* sender.send(WatchMsg::Connecting)
SendConnecting ==
    /\ pc = "start"
    /\ Send(Connecting, "connect")
    /\ UNCHANGED <<receiverAlive, calls, scanVars, polls>>
    /\ UNCHANGED otherVars

\* a connect step that announces Connected before the attempt is known to succeed
Connect_Optimistic ==
    /\ pc = "connect"
    /\ \E ok \in BOOLEAN :
        /\ Call([call |-> "connect", ok |-> ok])
        /\ IF ok THEN Send(Connected, "tip")
                 ELSE IF receiverAlive
                      THEN /\ events' = events \o <<Connected, Error("connect")>>
                           /\ tags' = tags \o <<0, 0>>
                           /\ pc' = "terminated"
                      ELSE /\ pc' = "panicked"
                           /\ UNCHANGED <<events, tags>>
    /\ UNCHANGED <<receiverAlive, scanVars, polls>>
    /\ UNCHANGED otherVars

\* ElectrumClient::from_config(..)?; sender.send(WatchMsg::Connected)
Connect ==
    /\ pc = "connect"
    /\ \E ok \in BOOLEAN :
        /\ Call([call |-> "connect", ok |-> ok])
        /\ IF ok THEN Send(Connected, "tip") ELSE Raise("connect")
    /\ UNCHANGED <<receiverAlive, scanVars, polls>>
    /\ UNCHANGED otherVars

\* client.block_headers_subscribe()?; sender.send(WatchMsg::LastBlock(..))
Subscribe ==
    /\ pc = "tip"
    /\ \E ok \in BOOLEAN :
        /\ Call([call |-> "block_headers_subscribe", ok |-> ok])
        /\ IF ok THEN \E h \in Headers : Send(LastBlock(h), "fee")
                 ELSE Raise("tip")
    /\ UNCHANGED <<receiverAlive, scanVars, polls>>
    /\ UNCHANGED otherVars

\* client.batch_estimate_fee([1, 2, 3])?; sender.send(WatchMsg::FeeEstimate(..))
EstimateFee ==
    /\ pc = "fee"
    /\ \E ok \in BOOLEAN :
        /\ Call([call |-> "batch_estimate_fee", ok |-> ok])
        /\ IF ok THEN Send(FeeEstimate(FeeReply[1], FeeReply[2], FeeReply[3]), "derive")
                 ELSE Raise("fee")
    /\ UNCHANGED <<receiverAlive, scanVars, polls>>
    /\ UNCHANGED otherVars

\* wallet_settings.script_pubkeys(change, offset..=(offset + 19)).map_err(..)?
Derive ==
    /\ pc = "derive"
    /\ \E ok \in BOOLEAN :
        /\ Call([call |-> "script_pubkeys", ok |-> ok, bi |-> bi, offset |-> offset])
        /\ IF ok
           THEN /\ spk' = ScriptPubkeys(change, offset, WindowEnd(offset))
                /\ pc' = "history"
                /\ UNCHANGED <<events, tags>>
           ELSE /\ Raise("derive")
                /\ UNCHANGED spk
    /\ UNCHANGED <<receiverAlive, bi, offset, upto, upto_index, txids, txvec, no, polls>>
    /\ UNCHANGED otherVars

\* the service reports activity in at most MaxWindows windows of a run
MayReply(reply) ==
    \/ reply = HistNone
    \/ Cardinality({c \in DOMAIN calls :
            calls[c].call = "history" /\ calls[c].hits > 0}) < MaxWindows

\* client.batch_script_get_history(..)? up to the send of the HistoryBatch
History ==
    /\ pc = "history"
    /\ \/ /\ Call([call |-> "history", ok |-> FALSE, bi |-> bi, offset |-> offset, hits |-> 0])
          /\ Raise("history")
          /\ UNCHANGED scanVars
       \/ \E reply \in HistoryReplies :
            LET history_batch == HistoryRecords(reply, spk, change) IN
            /\ MayReply(reply)
            /\ Call([call |-> "history", ok |-> TRUE, bi |-> bi, offset |-> offset,
                     hits |-> Len(history_batch)])
            /\ IF GapReached(history_batch, offset)
               THEN \* break upto: the loop's value is stored and the next branch starts
                    /\ upto_index' = [upto_index EXCEPT ![change] = upto]
                    /\ IF bi < Len(Branches)
                       THEN /\ bi' = bi + 1
                            /\ offset' = 0
                            /\ upto' = 0
                            /\ pc' = "derive"
                            /\ UNCHANGED <<txvec, no>>
                       ELSE /\ bi' = bi + 1
                            /\ txvec' = SortedSeq(txids)
                            /\ no' = 0
                            /\ pc' = "fetch"
                            /\ UNCHANGED <<offset, upto>>
                    /\ UNCHANGED <<events, tags, spk, txids>>
               ELSE /\ upto' = MaxIndex(history_batch)
                    /\ txids' = txids \cup TxidsOf(history_batch)
                    /\ Send(HistoryBatch(history_batch, offset), "utxo")
                    /\ UNCHANGED <<bi, offset, upto_index, spk, txvec, no>>
    /\ UNCHANGED <<receiverAlive, polls>>
    /\ UNCHANGED otherVars

\* client.batch_script_list_unspent(..)? up to offset += 20
Unspent ==
    /\ pc = "utxo"
    /\ \/ /\ Call([call |-> "unspent", ok |-> FALSE, bi |-> bi, offset |-> offset, hits |-> 0])
          /\ Raise("utxo")
          /\ UNCHANGED scanVars
       \/ \E reply \in UtxoReplies :
            LET utxos == UtxoRecords(reply, spk, change) IN
            /\ Call([call |-> "unspent", ok |-> TRUE, bi |-> bi, offset |-> offset,
                     hits |-> Len(utxos)])
            /\ txids' = txids \cup TxidsOf(utxos)
            /\ Send(UtxoBatch(utxos, offset), "derive")
            /\ offset' = IF receiverAlive THEN NextOffset(offset) ELSE offset
            /\ UNCHANGED <<bi, upto, upto_index, spk, txvec, no>>
    /\ UNCHANGED <<receiverAlive, polls>>
    /\ UNCHANGED otherVars

\* one iteration of `for (no, chunk) in txids.chunks(20).enumerate()`
FetchTx ==
    /\ pc = "fetch"
    /\ no < NumChunks(Len(txvec), ChunkSize)
    /\ LET chunk == ChunkAt(txvec, no, ChunkSize) IN
       \E ok \in BOOLEAN :
        /\ Call([call |-> "batch_transaction_get", ok |-> ok, no |-> no])
        /\ IF ok
           THEN /\ Send(TxBatch(TxMap(chunk, TxReply(chunk)), Progress(no, Len(txvec))), "fetch")
                /\ no' = IF receiverAlive THEN no + 1 ELSE no
           ELSE /\ Raise("tx")
                /\ UNCHANGED no
    /\ UNCHANGED <<receiverAlive, bi, offset, upto, upto_index, spk, txids, txvec, polls>>
    /\ UNCHANGED otherVars

\* sender.send(WatchMsg::Complete) after the last chunk
SendComplete ==
    /\ pc = "fetch"
    /\ no = NumChunks(Len(txvec), ChunkSize)
    /\ Send(Complete, "sleep")
    /\ UNCHANGED <<receiverAlive, calls, scanVars, polls>>
    /\ UNCHANGED otherVars

\* thread::sleep(Duration::from_secs(60))
Sleep ==
    /\ pc = "sleep"
    /\ polls < MaxPolls
    /\ pc' = "poll"
    /\ UNCHANGED <<receiverAlive, events, tags, calls, scanVars, polls>>
    /\ UNCHANGED otherVars

\* a poll that reports a new header with the message of the initial tip
Poll_WrongVariant ==
    /\ pc = "poll"
    /\ polls' = polls + 1
    /\ \/ /\ Call([call |-> "block_headers_pop", ok |-> TRUE, some |-> TRUE])
          /\ \E h \in Headers : Send(LastBlock(h), "sleep")
       \/ /\ Call([call |-> "block_headers_pop", ok |-> FALSE, some |-> FALSE])
          /\ Send(Error("poll"), "sleep")
       \/ /\ Call([call |-> "block_headers_pop", ok |-> TRUE, some |-> FALSE])
          /\ pc' = "sleep"
          /\ UNCHANGED <<events, tags>>
    /\ UNCHANGED <<receiverAlive, scanVars>>
    /\ UNCHANGED otherVars

\* match client.block_headers_pop() { .. }.expect(..)
Poll ==
    /\ pc = "poll"
    /\ polls' = polls + 1
    /\ \/ /\ Call([call |-> "block_headers_pop", ok |-> TRUE, some |-> TRUE])
          /\ \E h \in Headers : Send(LastBlockUpdate(h), "sleep")
       \/ /\ Call([call |-> "block_headers_pop", ok |-> FALSE, some |-> FALSE])
          /\ Send(Error("poll"), "sleep")
       \/ /\ Call([call |-> "block_headers_pop", ok |-> TRUE, some |-> FALSE])
          /\ pc' = "sleep"
          /\ UNCHANGED <<events, tags>>
    /\ UNCHANGED <<receiverAlive, scanVars>>
    /\ UNCHANGED otherVars

\* the consumer drops the receiving end of the channel
ConsumerDrop ==
    /\ receiverAlive
    /\ receiverAlive' = FALSE
    /\ UNCHANGED <<pc, events, tags, calls, scanVars, polls>>
    /\ UNCHANGED otherVars

Next ==
    \/ SendConnecting
    \/ Connect
    \/ Subscribe
    \/ EstimateFee
    \/ Derive
    \/ History
    \/ Unspent
    \/ FetchTx
    \/ SendComplete
    \/ Sleep
    \/ Poll
    \/ ConsumerDrop

Spec == Init /\ [][Next]_vars

(* ----------------------- reading the event stream ----------------------- *)
\* positions of the messages of one type
Idx(type) == {i \in DOMAIN events : events[i].type = type}

Count(type) == Cardinality(Idx(type))

\* positions of the batches of one type sent by loop iteration b
BatchIdx(type, b) == {i \in Idx(type) : tags[i] = b}

\* positions of the requests of one kind
CallIdx(kind) == {c \in DOMAIN calls : calls[c].call = kind}

\* requests whose failure returns the error from electrum_watcher
ScanKinds ==
    {"connect", "block_headers_subscribe", "batch_estimate_fee", "script_pubkeys",
     "history", "unspent", "batch_transaction_get"}

\* the worker thread has ended
Ended == pc \in {"terminated", "panicked"}

\* comparison of two progress fractions
FracLeq(p, q) == p.num * q.den <= q.num * p.den

(* ------------------------------- claims -------------------------------- *)
\* C1: a failure of the connection, the tip query, the fee query, a history
\* query, an unspent query, a transaction fetch or a script derivation before
\* Complete ends the worker: the failed request is the last request made, no
\* message follows, and with the consumer still attached exactly one Error
\* is on the channel and it is the last message (with the consumer gone the
\* send of that Error panics and nothing is delivered).
C1_ErrorEndsWorker ==
    \A c \in DOMAIN calls :
        (calls[c].call \in ScanKinds /\ ~calls[c].ok) =>
            /\ c = Len(calls)
            /\ Ended
            /\ Count("Complete") = 0
            /\ pc = "terminated" =>
                /\ Count("Error") = 1
                /\ events[Len(events)].type = "Error"
            /\ pc = "panicked" => ~receiverAlive /\ Count("Error") = 0

\* a history query failed in the middle of the scan and its Error was delivered
C1_Witness ==
    /\ pc = "terminated"
    /\ \E c \in CallIdx("history") : ~calls[c].ok /\ calls[c].offset > 0
    /\ events[Len(events)].type = "Error"

\* C2: when the history query of window k (offset 20*k) of a branch is the
\* first to come back empty, the branch has emitted exactly k HistoryBatch
\* and k UtxoBatch messages, one per window 0..k-1, every HistoryBatch
\* non-empty, and that query is the last request ever made for the branch.
C2_GapLimit ==
    \A b \in DOMAIN Branches : \A c \in CallIdx("history") :
        (calls[c].bi = b /\ calls[c].ok /\ calls[c].hits = 0) =>
            LET k == calls[c].offset \div WindowStep
                windows == {w * WindowStep : w \in 0..(k - 1)}
            IN  /\ calls[c].offset = k * WindowStep
                /\ \A d \in CallIdx("history") :
                     (calls[d].bi = b /\ d < c) => calls[d].hits > 0
                /\ Cardinality(BatchIdx("HistoryBatch", b)) = k
                /\ Cardinality(BatchIdx("UtxoBatch", b)) = k
                /\ {events[i].offset : i \in BatchIdx("HistoryBatch", b)} = windows
                /\ {events[i].offset : i \in BatchIdx("UtxoBatch", b)} = windows
                /\ \A i \in BatchIdx("HistoryBatch", b) : events[i].batch # <<>>
                /\ \A d \in DOMAIN calls :
                     (calls[d].call \in {"script_pubkeys", "history", "unspent"}
                        /\ calls[d].bi = b) =>
                            d <= c /\ calls[d].offset <= calls[c].offset

\* a branch with activity in windows 0 and 1 and none in window 2 was scanned
C2_Witness ==
    \E c \in CallIdx("history") :
        /\ calls[c].ok /\ calls[c].hits = 0 /\ calls[c].offset = 2 * WindowStep
        /\ Cardinality(BatchIdx("UtxoBatch", calls[c].bi)) = 2

\* the transaction ids that are keys of some TxBatch
TxBatchKeys == UNION {DOMAIN events[i].txmap : i \in Idx("TxBatch")}

\* the transaction ids of the records of all HistoryBatch and UtxoBatch messages
ReferencedTxids ==
    UNION {TxidsOf(events[i].batch) : i \in Idx("HistoryBatch") \cup Idx("UtxoBatch")}

\* C3: once Complete is emitted, the keys of all TxBatch messages are exactly
\* the transaction ids of the records of all HistoryBatch and UtxoBatch
\* messages, and no id is a key of two TxBatch messages.
C3_TxBatchCoversUnion ==
    Count("Complete") > 0 =>
        /\ TxBatchKeys = ReferencedTxids
        /\ \A i, j \in Idx("TxBatch") :
             i # j => DOMAIN events[i].txmap \cap DOMAIN events[j].txmap = {}

\* a completed run with two TxBatch messages, an id referenced by a history and
\* an unspent record (22) and an id referenced by an unspent record only (24)
C3_Witness ==
    /\ Count("Complete") > 0
    /\ Count("TxBatch") = 2
    /\ {22, 24} \subseteq TxBatchKeys
    /\ \E i \in Idx("HistoryBatch") : 22 \in TxidsOf(events[i].batch)
    /\ \E i \in Idx("UtxoBatch") : {22, 24} \subseteq TxidsOf(events[i].batch)

\* C4: the batches of one branch alternate HistoryBatch, UtxoBatch with the
\* same offset, and the offsets of successive windows are 0, 20, 40, ...
C4_WindowOrder ==
    \A b \in DOMAIN Branches : \A i \in DOMAIN events :
        tags[i] = b =>
            LET r == Cardinality({j \in 1..(i - 1) : tags[j] = b})
            IN  /\ events[i].type = IF r % 2 = 0 THEN "HistoryBatch" ELSE "UtxoBatch"
                /\ events[i].offset = (r \div 2) * WindowStep

\* a branch emitted the batches of its second window
C4_Witness ==
    \E i \in Idx("UtxoBatch") :
        /\ events[i].offset = WindowStep
        /\ \E j \in BatchIdx("HistoryBatch", tags[i]) :
             j < i /\ events[j].offset = WindowStep

\* the first four message types of a run
Preamble == <<"Connecting", "Connected", "LastBlock", "FeeEstimate">>

\* the run starts with the four messages of the preamble
HasPreamble ==
    /\ Len(events) >= Len(Preamble)
    /\ \A k \in DOMAIN Preamble : events[k].type = Preamble[k]

\* C5: once connection, tip query and fee query succeeded (and no send
\* panicked) the first four messages are Connecting, Connected, LastBlock,
\* FeeEstimate; each of them is only ever emitted at its own position, every
\* HistoryBatch, UtxoBatch, TxBatch and Complete comes after all four, and
\* Connected is never emitted after a failed connection attempt.
C5_Preamble ==
    /\ \A c \in CallIdx("batch_estimate_fee") :
         (calls[c].ok /\ pc # "panicked") => HasPreamble
    /\ \A i \in DOMAIN events : \A k \in DOMAIN Preamble :
         events[i].type = Preamble[k] => i = k
    /\ \A i \in DOMAIN events :
         events[i].type \in {"HistoryBatch", "UtxoBatch", "TxBatch", "Complete"} =>
            i > Len(Preamble) /\ HasPreamble
    /\ \A c \in CallIdx("connect") : ~calls[c].ok => Count("Connected") = 0

\* a run past the fee query that went on to emit batches and Complete
C5_Witness ==
    /\ Len(events) > Len(Preamble)
    /\ Count("HistoryBatch") > 0
    /\ Count("TxBatch") > 0
    /\ Count("Complete") > 0

\* scenario A: window 0 of both branches has no history, and the run completed
ScenarioA ==
    /\ Count("Complete") > 0
    /\ \A b \in DOMAIN Branches :
         \E c \in CallIdx("history") :
            calls[c].bi = b /\ calls[c].offset = 0 /\ calls[c].ok /\ calls[c].hits = 0

\* the types of the messages up to Complete
TypesToComplete ==
    LET n == CHOOSE i \in Idx("Complete") : \A j \in Idx("Complete") : i <= j
    IN  [i \in 1..n |-> events[i].type]

\* C6 as stated: in scenario A each branch emits an empty HistoryBatch and an
\* empty UtxoBatch with offset 0 between FeeEstimate and Complete.
C6_AsStated ==
    ScenarioA =>
        /\ Len(TypesToComplete) = 9
        /\ SubSeq(TypesToComplete, 1, 4) = Preamble
        /\ \A b \in DOMAIN Branches :
             /\ Cardinality(BatchIdx("HistoryBatch", b)) = 1
             /\ Cardinality(BatchIdx("UtxoBatch", b)) = 1
        /\ \A i \in Idx("HistoryBatch") \cup Idx("UtxoBatch") :
             events[i].batch = <<>> /\ events[i].offset = 0
        /\ Count("TxBatch") = 0

\* C6 amended: in scenario A the messages up to Complete are Connecting,
\* Connected, LastBlock, FeeEstimate, Complete: a window without history emits
\* neither a HistoryBatch nor a UtxoBatch, and there is no TxBatch.
C6_ScenarioA ==
    ScenarioA =>
        /\ TypesToComplete = Preamble \o <<"Complete">>
        /\ Count("HistoryBatch") = 0
        /\ Count("UtxoBatch") = 0
        /\ Count("TxBatch") = 0

\* scenario A ran to Complete
C6_Witness == ScenarioA /\ pc = "sleep" /\ txids = {}

\* C7 as stated: a failed block-header poll is the last request of the run, the
\* worker has ended, its Error is the last message, and a run has at most one
\* Error.
C7_AsStated ==
    /\ Count("Error") <= 1
    /\ \A c \in CallIdx("block_headers_pop") :
         ~calls[c].ok =>
            /\ c = Len(calls)
            /\ Ended
            /\ pc = "terminated" => events[Len(events)].type = "Error"

\* C8 as stated: no batch of an interrupted window is on the channel: when the
\* history query or the unspent query of a window failed, neither the
\* HistoryBatch nor the UtxoBatch of that window has been emitted.
C8_AsStated ==
    \A c \in CallIdx("history") \cup CallIdx("unspent") :
        ~calls[c].ok =>
            \A i \in Idx("HistoryBatch") \cup Idx("UtxoBatch") :
                ~(tags[i] = calls[c].bi /\ events[i].offset = calls[c].offset)

\* C9 as stated: every TxBatch progress lies in (0, 1] and, once all batches
\* are out, the progress of the last TxBatch is 1.
C9_AsStated ==
    /\ \A i \in Idx("TxBatch") :
         /\ 0 < events[i].progress.num
         /\ events[i].progress.num <= events[i].progress.den
    /\ (Count("Complete") > 0 /\ Count("TxBatch") > 0) =>
         LET last == CHOOSE i \in Idx("TxBatch") : \A j \in Idx("TxBatch") : j <= i
         IN  events[last].progress.num = events[last].progress.den

\* C10: of two TxBatch messages the later one holds the later chunk (greater
\* transaction ids of the sorted id list) and a progress that is not smaller.
C10_ProgressMonotone ==
    \A i, j \in Idx("TxBatch") :
        i < j =>
            /\ FracLeq(events[i].progress, events[j].progress)
            /\ \A a \in DOMAIN events[i].txmap : \A b \in DOMAIN events[j].txmap : a < b

\* two TxBatch messages were emitted
C10_Witness ==
    \E i, j \in Idx("TxBatch") :
        i < j /\ events[i].progress # events[j].progress

(* ------------------- master-key signer (model/sign.rs) ------------------ *)
\* number of calls made on one signer
MaxCalls == 3

\* the master secrets a signer may be built from
Masters == {"m1", "m2"}

\* ChildNumber::Hardened { index: 0 } and ChildNumber::Normal { index: 1 }
Hardened0 == [hardened |-> TRUE, index |-> 0]

Normal1 == [hardened |-> FALSE, index |-> 1]

\* the derivation paths asked for
Paths == {<<Hardened0>>, <<Hardened0, Normal1>>}

\* the master ExtendedPrivKey of a secret
MasterXpriv(m) == [private_key |-> [root |-> m, steps |-> <<>>], depth |-> 0]

\* ExtendedPrivKey::derive_priv: one child-key step per element of the path;
\* the child key is determined by the parent key and the step
DerivePriv(xpriv, path) ==
    [private_key |-> [root |-> xpriv.private_key.root,
                      steps |-> xpriv.private_key.steps \o path],
     depth |-> xpriv.depth + Len(path)]

\* the public key of a secret key
PublicOf(sk) == [public_of |-> sk]

\* ExtendedPrivKey::fingerprint: identifier computed from the public key
Fingerprint(xpriv) == [fingerprint_of |-> PublicOf(xpriv.private_key)]

\* the fingerprints asked for
Fingerprints == {Fingerprint(MasterXpriv(m)) : m \in Masters}

\* full public keys supplied to derive_xpriv and secret_key
PublicKeys == {[x |-> 7, odd |-> FALSE], [x |-> 7, odd |-> TRUE]}

\* x-only public keys supplied to key_pair
XOnlyKeys == {[x |-> 7], [x |-> 9]}

\* XOnlyPublicKey::to_public_key().inner: the full key of even parity
ToPublicKey(xonly) == [x |-> xonly.x, odd |-> FALSE]

\* KeyPair::from_secret_key
KeyPairFromSecret(sk) == [secret |-> sk, public |-> PublicOf(sk)]

Ok(v) == [ok |-> TRUE, value |-> v]

Err(e) == [ok |-> FALSE, error |-> e]

\* SecretProviderError::AccountUnknown
AccountUnknown(fp, pk) == [kind |-> "AccountUnknown", fingerprint |-> fp, pubkey |-> pk]

\* a fingerprint check that reports the signer's own fingerprint in the error
derive_xpriv_OwnFingerprint(self, fingerprint, derivation, pubkey) ==
    IF fingerprint # Fingerprint(self.xpriv)
    THEN Err(AccountUnknown(Fingerprint(self.xpriv), pubkey))
    ELSE Ok(DerivePriv(self.xpriv, derivation))

\* XprivSigner::derive_xpriv
derive_xpriv(self, fingerprint, derivation, pubkey) ==
    IF fingerprint # Fingerprint(self.xpriv)
    THEN Err(AccountUnknown(fingerprint, pubkey))
    ELSE Ok(DerivePriv(self.xpriv, derivation))

\* XprivSigner::secret_key
secret_key(self, fingerprint, derivation, pubkey) ==
    LET xpriv == derive_xpriv(self, fingerprint, derivation, pubkey)
    IN  IF xpriv.ok THEN Ok(xpriv.value.private_key) ELSE xpriv

\* a key_pair that builds the pair from the master key instead of the derived key
key_pair_Master(self, fingerprint, derivation, pubkey) ==
    LET xpriv == derive_xpriv(self, fingerprint, derivation, ToPublicKey(pubkey))
    IN  IF xpriv.ok THEN Ok(KeyPairFromSecret(self.xpriv.private_key)) ELSE xpriv

\* XprivSigner::key_pair
key_pair(self, fingerprint, derivation, pubkey) ==
    LET xpriv == derive_xpriv(self, fingerprint, derivation, ToPublicKey(pubkey))
    IN  IF xpriv.ok THEN Ok(KeyPairFromSecret(xpriv.value.private_key)) ELSE xpriv

\* one call on the signer is recorded with its arguments and its result
Logged(op, fp, d, pk, res) ==
    /\ Len(sigLog) < MaxCalls
    /\ sigLog' = Append(sigLog, [op |-> op, self |-> signer, fingerprint |-> fp,
                                 derivation |-> d, pubkey |-> pk, result |-> res])
    /\ UNCHANGED <<signer, loopPc, loopOffset, loopEnd>>
    /\ UNCHANGED workerVars

\* a caller invokes derive_xpriv(&self, ..)
CallDeriveXpriv ==
    \E fp \in Fingerprints, d \in Paths, pk \in PublicKeys :
        Logged("derive_xpriv", fp, d, pk, derive_xpriv(signer, fp, d, pk))

\* a caller invokes secret_key(&self, ..)
CallSecretKey ==
    \E fp \in Fingerprints, d \in Paths, pk \in PublicKeys :
        Logged("secret_key", fp, d, pk, secret_key(signer, fp, d, pk))

\* a caller invokes key_pair(&self, ..)
CallKeyPair ==
    \E fp \in Fingerprints, d \in Paths, pk \in XOnlyKeys :
        Logged("key_pair", fp, d, pk, key_pair(signer, fp, d, pk))

\* a signer constructed from one of the master keys, not yet called
InitSigner ==
    /\ WorkerInit
    /\ signer \in {[xpriv |-> MasterXpriv(m)] : m \in Masters}
    /\ sigLog = <<>>
    /\ loopPc = "idle"
    /\ loopOffset = 0
    /\ loopEnd = 0

NextSigner ==
    \/ CallDeriveXpriv
    \/ CallSecretKey
    \/ CallKeyPair

SpecSigner == InitSigner /\ [][NextSigner]_vars

\* the full public key a call hands to derive_xpriv
HandedKey(e) == IF e.op = "key_pair" THEN ToPublicKey(e.pubkey) ELSE e.pubkey

\* the secret a successful call returned
SecretOf(e) ==
    IF e.op = "derive_xpriv" THEN e.result.value.private_key
    ELSE IF e.op = "secret_key" THEN e.result.value
    ELSE e.result.value.secret

\* C11: a call of derive_xpriv, secret_key or key_pair with a fingerprint other
\* than that of the signer's master key returns AccountUnknown with the
\* requested fingerprint and the supplied public key (for key_pair the x-only
\* key as the full key handed on) and no derived key; with the signer's
\* fingerprint it returns no error; the signer is the same at every call.
C11_AccountUnknown ==
    \A i \in DOMAIN sigLog :
        LET e == sigLog[i] IN
        /\ e.self = signer
        /\ IF e.fingerprint # Fingerprint(signer.xpriv)
           THEN /\ e.result = Err(AccountUnknown(e.fingerprint, HandedKey(e)))
                /\ HandedKey(e).x = e.pubkey.x
           ELSE e.result.ok

\* all three operations were refused for a foreign fingerprint
C11_Witness ==
    /\ Len(sigLog) = 3
    /\ \A i \in DOMAIN sigLog : ~sigLog[i].result.ok
    /\ {sigLog[i].op : i \in DOMAIN sigLog} = {"derive_xpriv", "secret_key", "key_pair"}

\* C12: with the signer's fingerprint the secret is a function of the master
\* key and the path only: two successful calls with the same path return the
\* same secret whatever public key was supplied and whatever was called in
\* between, and key_pair returns the key pair of that secret.
C12_Deterministic ==
    \A i, j \in DOMAIN sigLog :
        (sigLog[i].result.ok /\ sigLog[j].result.ok) =>
            /\ (sigLog[i].derivation = sigLog[j].derivation)
                   => (SecretOf(sigLog[i]) = SecretOf(sigLog[j]))
            /\ SecretOf(sigLog[i]) = DerivePriv(signer.xpriv, sigLog[i].derivation).private_key
            /\ sigLog[i].op = "key_pair" =>
                   sigLog[i].result.value = KeyPairFromSecret(SecretOf(sigLog[i]))

\* secret_key and key_pair succeeded on the same path with different public
\* keys, with a refused call in between
C12_Witness ==
    /\ Len(sigLog) = 3
    /\ sigLog[1].op = "secret_key" /\ sigLog[1].result.ok
    /\ ~sigLog[2].result.ok
    /\ sigLog[3].op = "key_pair" /\ sigLog[3].result.ok
    /\ sigLog[1].derivation = sigLog[3].derivation
    /\ sigLog[1].pubkey.x # sigLog[3].pubkey.x

(* -------------------- claims on the worker, continued ------------------ *)
\* a step of the worker that passes no send
NoSendStep ==
    /\ events' = events
    /\ \/ pc = "derive" /\ pc' = "history"
       \/ pc = "history" /\ pc' \in {"derive", "fetch"}
       \/ pc = "sleep" /\ pc' = "poll"
       \/ /\ pc = "poll" /\ pc' = "sleep"
          /\ calls'[Len(calls')].ok /\ ~calls'[Len(calls')].some

\* C13: a send made when the consumer is gone ends the worker at once: every
\* worker step taken without a consumer either passes no send or panics, the
\* panicking step delivers nothing, and after the panic there is no request, no
\* message (no Error either) and no sleep.
C13_FailFast ==
    [][/\ (~receiverAlive /\ workerVars' # workerVars /\ pc' # "panicked") => NoSendStep
       /\ (pc # "panicked" /\ pc' = "panicked") => (~receiverAlive /\ events' = events)
       /\ pc = "panicked" => UNCHANGED workerVars]_vars

\* after Complete a poll failed and the send of its Error panicked
C13_Witness ==
    /\ pc = "panicked"
    /\ Count("Complete") = 1
    /\ ~calls[Len(calls)].ok

\* C14 as stated: cancellation is checked at the suspension points of the
\* watching loop: once the consumer is gone, a poll ends the worker.
C14_AsStated ==
    [][(~receiverAlive /\ pc = "poll") => pc' \in {"terminated", "panicked"}]_vars

\* C15: Complete is emitted at most once and is there when the watching loop
\* runs; everything before it is no LastBlockUpdate, and after it only
\* LastBlockUpdate (and the Error of a failed poll) is emitted: no HistoryBatch,
\* UtxoBatch, TxBatch, LastBlock or FeeEstimate.
C15_CompleteOnce ==
    /\ Count("Complete") <= 1
    /\ pc \in {"sleep", "poll"} => Count("Complete") = 1
    /\ Count("LastBlockUpdate") > 0 => Count("Complete") = 1
    /\ \A i \in Idx("Complete") : \A j \in DOMAIN events :
         /\ j < i => events[j].type \notin {"LastBlockUpdate", "Error"}
         /\ j > i => events[j].type \in {"LastBlockUpdate", "Error"}

\* a run with batches of both kinds and transactions, Complete and a later update
C15_Witness ==
    /\ Count("UtxoBatch") > 0
    /\ Count("TxBatch") > 0
    /\ Count("LastBlockUpdate") > 0
    /\ events[Len(events)].type = "LastBlockUpdate"

\* the indexes of all history records emitted for loop iteration b
EmittedIndexes(b) ==
    UNION {{events[i].batch[k].index : k \in DOMAIN events[i].batch} :
             i \in BatchIdx("HistoryBatch", b)}

\* the last HistoryBatch emitted for loop iteration b
LastHistory(b) ==
    events[CHOOSE i \in BatchIdx("HistoryBatch", b) :
              \A j \in BatchIdx("HistoryBatch", b) : j <= i]

\* C16: when the scan of a branch has ended after at least one non-empty
\* window, upto_index of the branch is the greatest index of all history
\* records emitted for it, which is the greatest index of its last batch.
C16_HighestUsed ==
    \A b \in DOMAIN Branches :
        (bi > b /\ BatchIdx("HistoryBatch", b) # {}) =>
            /\ upto_index[Branches[b]] \in EmittedIndexes(b)
            /\ \A x \in EmittedIndexes(b) : x <= upto_index[Branches[b]]
            /\ \E k \in DOMAIN LastHistory(b).batch :
                 LastHistory(b).batch[k].index = upto_index[Branches[b]]

\* a branch ended after two non-empty windows, index 39 being the greatest
C16_Witness ==
    \E b \in DOMAIN Branches :
        /\ bi > b
        /\ Cardinality(BatchIdx("HistoryBatch", b)) = 2
        /\ upto_index[Branches[b]] = WindowStep + WindowLast

\* the history batch of a branch whose only used address is index 0
OnlyIndexZero(chg) ==
    <<HistoryTxid([tx_hash |-> 21, height |-> 100], ScriptPubkeys(chg, 0, 0)[1], chg)>>

\* C17 as stated: for a branch no window of which produced history, the value
\* recorded in upto_index differs from the value recorded for a branch whose
\* only used address is index 0.
C17_AsStated ==
    \A b \in DOMAIN Branches :
        (bi > b /\ BatchIdx("HistoryBatch", b) = {}) =>
            upto_index[Branches[b]] # MaxIndex(OnlyIndexZero(Branches[b]))

\* the positions of a reply at which the service names transaction t
Positions(t) ==
    {p \in 1..WindowStep :
        \E reply \in HistoryReplies \cup UtxoReplies :
            \E k \in DOMAIN reply[p] : reply[p][k].tx_hash = t}

\* C18: every record of a HistoryBatch or UtxoBatch sent with offset o by the
\* scan of branch b has change = b, an index in o..o+19, the address of the
\* script of (b, index), and comes from the reply entry at the position of that
\* index in the window.
C18_RecordsMatchScripts ==
    \A i \in DOMAIN events :
        tags[i] > 0 =>
            \A k \in DOMAIN events[i].batch :
                LET r == events[i].batch[k]
                    o == events[i].offset
                IN  /\ r.change = Branches[tags[i]]
                    /\ o <= r.index /\ r.index <= o + WindowLast
                    /\ r.address = AddressFromScript(Script(Branches[tags[i]], r.index))
                    /\ (r.index - o + 1) \in Positions(r.txid)

\* the second window of a branch emitted history and unspent records
C18_Witness ==
    \E i \in Idx("UtxoBatch") : \E j \in Idx("HistoryBatch") :
        /\ tags[i] = tags[j] /\ events[i].offset = WindowStep /\ events[j].offset = WindowStep
        /\ events[i].batch # <<>>

\* C19: the batches of the change branch all precede the batches of the
\* receiving branch: the sending loop iteration never decreases along the
\* channel, the first iteration is the change branch, and no history record
\* of the change branch follows one of the receiving branch.
C19_BranchesInOrder ==
    /\ \A i, j \in DOMAIN events :
         (i < j /\ tags[i] > 0 /\ tags[j] > 0) => tags[i] <= tags[j]
    /\ \A i \in Idx("HistoryBatch") : \A k \in DOMAIN events[i].batch :
         events[i].batch[k].change = (tags[i] = 1)
    /\ \A i, j \in Idx("HistoryBatch") :
         (i < j /\ ~events[i].batch[1].change) => ~events[j].batch[1].change

\* both branches emitted batches
C19_Witness ==
    \E i, j \in Idx("UtxoBatch") :
        tags[i] = 1 /\ tags[j] = 2 /\ i < j

(* --------------- the window loop of one branch and its u16 -------------- *)
\* a + b on u16: the sum, or on overflow the panic of a build with overflow
\* checks and the wrapped value of a build without them
AddU16(a, b) ==
    IF a + b < U16Mod
    THEN {[value |-> a + b, panic |-> FALSE]}
    ELSE {[value |-> 0, panic |-> TRUE], [value |-> (a + b) % U16Mod, panic |-> FALSE]}

\* script_pubkeys(change, offset..=(offset + 19)): the range end is computed,
\* then the descriptor derives the scripts or fails
LoopDerive ==
    /\ loopPc = "derive"
    /\ \E sum \in AddU16(loopOffset, WindowLast) :
         IF sum.panic
         THEN loopPc' = "panicked" /\ UNCHANGED loopEnd
         ELSE /\ loopEnd' = sum.value
              /\ \E ok \in BOOLEAN : loopPc' = IF ok THEN "history" ELSE "failed"
    /\ UNCHANGED <<loopOffset, signer, sigLog>>
    /\ UNCHANGED workerVars

\* batch_script_get_history: failure, an empty batch (break) or activity, which
\* takes a script in the range offset..=end
LoopHistory ==
    /\ loopPc = "history"
    /\ \E reply \in {"fail", "empty", "active"} :
         /\ reply = "active" => loopOffset <= loopEnd
         /\ loopPc' = IF reply = "fail" THEN "failed"
                      ELSE IF reply = "empty" THEN "break" ELSE "utxo"
    /\ UNCHANGED <<loopOffset, loopEnd, signer, sigLog>>
    /\ UNCHANGED workerVars

\* batch_script_list_unspent, then offset += 20
LoopUnspent ==
    /\ loopPc = "utxo"
    /\ \/ loopPc' = "failed" /\ UNCHANGED loopOffset
       \/ \E sum \in AddU16(loopOffset, WindowStep) :
            IF sum.panic
            THEN loopPc' = "panicked" /\ UNCHANGED loopOffset
            ELSE loopPc' = "derive" /\ loopOffset' = sum.value
    /\ UNCHANGED <<loopEnd, signer, sigLog>>
    /\ UNCHANGED workerVars

\* let mut offset = 0u16 at the head of the loop of one branch
InitLoop ==
    /\ WorkerInit
    /\ signer = [xpriv |-> "none"]
    /\ sigLog = <<>>
    /\ loopPc = "derive"
    /\ loopOffset = 0
    /\ loopEnd = 0

NextLoop ==
    \/ LoopDerive
    \/ LoopHistory
    \/ LoopUnspent

SpecLoop == InitLoop /\ [][NextLoop]_vars

\* C20 as stated: the offset is a multiple of 20 and neither offset + 19 nor
\* offset + 20 ever leaves the u16 range: no overflow panic, and the range end
\* of a window is its offset plus 19.
C20_AsStated ==
    /\ loopOffset % WindowStep = 0
    /\ loopPc # "panicked"
    /\ loopPc \in {"history", "utxo"} => loopEnd = loopOffset + WindowLast

====
